---- MODULE Spec2Model ----
(***************************************************************************)
(* Model of the LL905 range-finder driver (src/drivers/ll905/ll905.cpp).   *)
(*                                                                         *)
(* Two threads act on one driver object:                                   *)
(*   - the HPWORK work-queue thread, which runs LL905::cycle();            *)
(*   - one caller thread, which runs LL905::ioctl() and LL905::read().     *)
(* cycle() blocks inside the I2C transfer of collect() and of measure(),   *)
(* and the manual read() blocks in usleep(); at these points the other     *)
(* thread may run.  ioctl() and the automatic-mode read() loop do not      *)
(* block and are modelled as one step each, with one exception: the        *)
(* work-queue thread, which has the higher priority, may take the          *)
(* processor from a caller that is inside start(), between the reset of    *)
(* the phase and the work_queue call, when it has a cycle() to run.        *)
(*                                                                         *)
(* Every method is an operator from the driver record to the driver        *)
(* record.  The calls a method makes to its collaborators (I2C transfer,   *)
(* uORB, work queue, usleep, ring buffer insert) are appended to the       *)
(* record's field io; each step moves that log to the variable ev, which   *)
(* describes the last step taken and nothing older: ev.io holds the calls  *)
(* of the step, ev.call those of the whole read() or cycle() invocation    *)
(* the step belongs to, up to and including the step.                      *)
(*                                                                         *)
(* Distances are kept in millimetres: a raw register count is in           *)
(* centimetres, and `distance * 0.01f` metres is raw * 10 millimetres;     *)
(* LL905_MIN_DISTANCE 0.20 m is 200 and LL905_MAX_DISTANCE 10.00 m is      *)
(* 10000.  Single-precision rounding is not modelled.                      *)
(***************************************************************************)
EXTENDS Integers, Sequences, FiniteSets, TLC

(* ------------------------------ bounds -------------------------------- *)
\* transfers with an outcome that counts: the collects that are answered
\* plus the transfers that fail, before the transport stops answering
MaxTransfers == 3
\* where the counters and the clock stop counting in the engine without end
LiveCap == 0

(* ------------------------- program constants -------------------------- *)
LL905_CONVERSION_INTERVAL == 100000
LL905_MIN_DISTANCE == 200
LL905_MAX_DISTANCE == 10000
USEC_PER_TICK == 1000
DefaultQueueDepth == 2
StartDelay == 1
CLASS_DEVICE_PRIMARY == 0
SENSOR_POLLRATE_MANUAL == 1000000

USEC2TICK(usec) == (usec + (USEC_PER_TICK \div 2)) \div USEC_PER_TICK

ConversionTicks == USEC2TICK(LL905_CONVERSION_INTERVAL)

(* ------------------------- inputs of the calls ------------------------ *)
\* requests of SENSORIOCSPOLLRATE: the four symbolic rates and plain Hz values
HzValues == {0, 2, 10, 11}
PollRateArgs ==
    [kind : {"MANUAL", "EXTERNAL", "MAX", "DEFAULT"}, hz : {0}]
        \cup [kind : {"HZ"}, hz : HzValues]
\* raw 16 bit register counts (centimetres) the device answers with
RawCounts == {21, 1000}
\* thresholds the threshold ioctls are called with (millimetres)
MinDistances == {LL905_MIN_DISTANCE, 210}
MaxDistances == {LL905_MAX_DISTANCE}
\* report slots in the caller's read buffer (buflen / sizeof(report))
\* SENSORIOCSQUEUEDEPTH requests: below, inside and above the legal range
QueueDepths == {0, 1, 3, 101}
ReadCounts == {0, 1, 2}
ClassInstances == {CLASS_DEVICE_PRIMARY, 1}

NoReport == [timestamp |-> 0, distance |-> 0, valid |-> FALSE, error_count |-> 0]
\* the uninitialised stack report of LL905::init
Garbage == [timestamp |-> -1, distance |-> -1, valid |-> FALSE, error_count |-> -1]
\* what a range_finder_report on the stack may hold before it is written
UninitReports ==
    {NoReport, Garbage,
     [timestamp |-> 7, distance |-> 1230, valid |-> TRUE, error_count |-> 0]}

\* one call to a collaborator: its name, a number, a flag and a report
Io(call, n, flag, rep) == [call |-> call, n |-> n, flag |-> flag, rep |-> rep]

Log(d, e) == [d EXCEPT !.io = Append(@, e)]

VARIABLES
    dev,      \* the LL905 object, its work item and the hrt clock
    wq,       \* the work-queue thread: position inside cycle()
    caller,   \* the caller thread: position inside read()
    ev        \* the last step: who, which call, its result and its io

vars == <<dev, wq, caller, ev>>

(* --------------------------- RingBuffer ------------------------------- *)
\* RingBuffer::force: insert, dropping the oldest entry when full
RingForce(buf, size, r) ==
    IF Len(buf) >= size THEN Append(Tail(buf), r) ELSE Append(buf, r)

\* RingBuffer::force's return value: TRUE when an entry was overwritten
RingForceOverwrote(buf, size) == Len(buf) >= size

\* RingBuffer::get, count times: the reports removed, oldest first
RingTake(buf, count) ==
    IF count >= Len(buf) THEN buf ELSE SubSeq(buf, 1, count)

\* RingBuffer::get, count times: what stays in the buffer
RingRest(buf, count) ==
    IF count >= Len(buf) THEN << >> ELSE SubSeq(buf, count + 1, Len(buf))

\* RingBuffer::resize: TRUE when the ring can take the new size
RingResizeOk(size) == size >= 1

\* RingBuffer::resize: the most recent items that fit the new size
RingResize(buf, size) ==
    LET n == Len(buf)
        keep == IF size < n THEN size ELSE n
    IN  SubSeq(buf, n - keep + 1, n)

(* ----------------------------- work queue ----------------------------- *)
\* work_queue(HPWORK, &_work, cycle_trampoline, this, delay): the one work
\* item of the driver is (re)armed with the given delay
WorkQueue(d, delay) ==
    Log([d EXCEPT !.work = [queued |-> TRUE, delay |-> delay]],
        Io("work_queue", delay, d.work.queued, NoReport))

\* work_cancel(HPWORK, &_work): a queued item is removed; an item whose
\* worker is running is not queued and is left alone
WorkCancel(d) ==
    Log([d EXCEPT !.work = [queued |-> FALSE, delay |-> 0]],
        Io("work_cancel", 0, d.work.queued, NoReport))

(* ---------------------------- the driver ------------------------------ *)
\* LL905::LL905
Constructed ==
    [ sensor_ok |-> FALSE,
      min_distance |-> LL905_MIN_DISTANCE,
      max_distance |-> LL905_MAX_DISTANCE,
      measure_ticks |-> 0,
      collect_phase |-> FALSE,
      class_instance |-> -1,
      range_finder_topic |-> -1,
      reports |-> << >>,
      queue_depth |-> 0,
      comms_errors |-> 0,
      buffer_overflows |-> 0,
      work |-> [queued |-> FALSE, delay |-> 0],
      clock |-> 0,
      io |-> << >> ]

\* LL905::measure: ok is the result of the I2C transfer
Measure(d, ok) ==
    LET d1 == Log(d, Io("begin_acquisition", 0, ok, NoReport))
    IN  IF ok THEN d1 ELSE [d1 EXCEPT !.comms_errors = @ + 1]

\* mutant: the upper threshold taken as inclusive
BuildReport_InclusiveMax(d, raw) ==
    LET si_units == raw * 10
    IN  [ timestamp |-> d.clock + 1,
          distance |-> si_units,
          valid |-> (si_units > d.min_distance /\ si_units <= d.max_distance),
          error_count |-> d.comms_errors ]

\* mutant: the lower threshold taken as inclusive
BuildReport_InclusiveMin(d, raw) ==
    LET si_units == raw * 10
    IN  [ timestamp |-> d.clock + 1,
          distance |-> si_units,
          valid |-> (si_units >= d.min_distance /\ si_units < d.max_distance),
          error_count |-> d.comms_errors ]

\* the report LL905::collect builds from a raw count
BuildReport(d, raw) ==
    LET si_units == raw * 10
    IN  [ timestamp |-> d.clock + 1,
          distance |-> si_units,
          valid |-> (si_units > d.min_distance /\ si_units < d.max_distance),
          error_count |-> d.comms_errors ]

\* LL905::collect, the publication
Publish(d, report) ==
    IF d.range_finder_topic >= 0
    THEN Log(d, Io("orb_publish", 0, TRUE, report))
    ELSE d

\* mutant: every insertion counted as an overflow
Store_CountsEveryInsert(d, report) ==
    LET overwrote == RingForceOverwrote(d.reports, d.queue_depth)
        d1 == Log([d EXCEPT !.reports = RingForce(@, d.queue_depth, report)],
                  Io("force", 0, overwrote, report))
    IN  [d1 EXCEPT !.buffer_overflows = @ + 1]

\* LL905::collect, the insertion into the report ring
Store(d, report) ==
    LET overwrote == RingForceOverwrote(d.reports, d.queue_depth)
        d1 == Log([d EXCEPT !.reports = RingForce(@, d.queue_depth, report)],
                  Io("force", 0, overwrote, report))
    IN  IF overwrote THEN [d1 EXCEPT !.buffer_overflows = @ + 1] ELSE d1

\* mutant: a report is built from the buffer of a failed transfer as well
Collect_ReportsFailedRead(d, ok, raw) ==
    LET d1 == Log(d, Io("read_distance", IF ok THEN raw ELSE 0, ok, NoReport))
        report == BuildReport(d, raw)
    IN  IF ~ok
        THEN Store(Publish([d1 EXCEPT !.comms_errors = @ + 1,
                                      !.clock = @ + 1], report), report)
        ELSE Store(Publish([d1 EXCEPT !.clock = @ + 1], report), report)

\* LL905::collect: ok is the result of the I2C transfer, raw the count read
Collect(d, ok, raw) ==
    LET d1 == Log(d, Io("read_distance", IF ok THEN raw ELSE 0, ok, NoReport))
        report == BuildReport(d, raw)
    IN  IF ~ok
        THEN [d1 EXCEPT !.comms_errors = @ + 1]
        ELSE Store(Publish([d1 EXCEPT !.clock = @ + 1], report), report)

\* LL905::start, up to the work_queue call: reset the phase, flush the ring
StartBegin(d) == [d EXCEPT !.collect_phase = FALSE, !.reports = << >>]

\* mutant: start() announces the sensor and queues nothing
StartEnd_NotQueued(d) == Log(d, Io("subsystem_info", 0, TRUE, NoReport))

\* LL905::start, from the work_queue call on
StartEnd(d) ==
    Log(WorkQueue(d, StartDelay), Io("subsystem_info", 0, TRUE, NoReport))

\* LL905::start
Start(d) == StartEnd(StartBegin(d))

\* LL905::stop
Stop(d) == WorkCancel(d)

\* LL905::init after a successful I2C::init: ok is the result of the
\* measure() call of the primary instance, topic what orb_advertise returns,
\* junk what rf_report holds: get() on the empty ring does not write it
DriverInit(d, instance, ok, topic, junk) ==
    LET d1 == [d EXCEPT !.queue_depth = DefaultQueueDepth,
                        !.class_instance = instance]
        d2 == IF instance = CLASS_DEVICE_PRIMARY
              THEN Log([Measure(d1, ok) EXCEPT !.range_finder_topic = topic],
                       Io("orb_advertise", 0, topic >= 0, junk))
              ELSE d1
    IN  [d2 EXCEPT !.sensor_ok = TRUE]

\* LL905::ioctl, SENSORIOCSPOLLRATE: the interval a plain Hz request asks for
HzTicks(hz) == USEC2TICK(1000000 \div hz)

\* LL905::ioctl, SENSORIOCSPOLLRATE: the value returned
SetPollRateRet(d, arg) ==
    CASE arg.kind = "MANUAL" -> "OK"
      [] arg.kind = "EXTERNAL" -> "EINVAL"
      [] arg.kind \in {"MAX", "DEFAULT"} -> "OK"
      [] OTHER -> IF arg.hz = 0 THEN "EINVAL"
                  ELSE IF HzTicks(arg.hz) < ConversionTicks THEN "EINVAL"
                  ELSE "OK"

\* mutant: a too short Hz interval is stored before it is refused
SetPollRate_StoresBadRate(d, arg) ==
    LET want_start == (d.measure_ticks = 0)
        set(ticks) == LET d1 == [d EXCEPT !.measure_ticks = ticks]
                      IN  IF want_start THEN Start(d1) ELSE d1
    IN  CASE arg.kind = "MANUAL" -> [Stop(d) EXCEPT !.measure_ticks = 0]
          [] arg.kind = "EXTERNAL" -> d
          [] arg.kind \in {"MAX", "DEFAULT"} -> set(ConversionTicks)
          [] OTHER -> IF arg.hz = 0 THEN d
                      ELSE IF HzTicks(arg.hz) < ConversionTicks
                      THEN [d EXCEPT !.measure_ticks = HzTicks(arg.hz)]
                      ELSE set(HzTicks(arg.hz))

\* mutant: start() called whatever the interval was
SetPollRate_AlwaysStarts(d, arg) ==
    LET set(ticks) == Start([d EXCEPT !.measure_ticks = ticks])
    IN  CASE arg.kind = "MANUAL" -> [Stop(d) EXCEPT !.measure_ticks = 0]
          [] arg.kind = "EXTERNAL" -> d
          [] arg.kind \in {"MAX", "DEFAULT"} -> set(ConversionTicks)
          [] OTHER -> IF arg.hz = 0 THEN d
                      ELSE IF HzTicks(arg.hz) < ConversionTicks THEN d
                      ELSE set(HzTicks(arg.hz))

\* LL905::ioctl, SENSORIOCSPOLLRATE: the driver afterwards
SetPollRate(d, arg) ==
    LET want_start == (d.measure_ticks = 0)
        set(ticks) == LET d1 == [d EXCEPT !.measure_ticks = ticks]
                      IN  IF want_start THEN Start(d1) ELSE d1
    IN  CASE arg.kind = "MANUAL" -> [Stop(d) EXCEPT !.measure_ticks = 0]
          [] arg.kind = "EXTERNAL" -> d
          [] arg.kind \in {"MAX", "DEFAULT"} -> set(ConversionTicks)
          [] OTHER -> IF arg.hz = 0 THEN d
                      ELSE IF HzTicks(arg.hz) < ConversionTicks THEN d
                      ELSE set(HzTicks(arg.hz))

\* LL905::ioctl, SENSORIOCSPOLLRATE: TRUE when the request calls start()
SetPollRateStarts(d, arg) ==
    /\ d.measure_ticks = 0
    /\ arg.kind # "MANUAL"
    /\ SetPollRateRet(d, arg) = "OK"

\* LL905::ioctl, SENSORIOCSPOLLRATE: the driver when the caller is preempted
\* inside start(), before its work_queue call
SetPollRateBegin(d, arg) ==
    StartBegin([d EXCEPT !.measure_ticks =
                  IF arg.kind = "HZ" THEN HzTicks(arg.hz) ELSE ConversionTicks])

\* mutant: the interval in ticks returned instead of the rate
GetPollRate_ReturnsTicks(d) ==
    IF d.measure_ticks = 0 THEN SENSOR_POLLRATE_MANUAL ELSE d.measure_ticks

\* LL905::ioctl, SENSORIOCGPOLLRATE: the value returned
GetPollRate(d) ==
    IF d.measure_ticks = 0 THEN SENSOR_POLLRATE_MANUAL
    ELSE 1000 \div d.measure_ticks

\* LL905::ioctl, SENSORIOCSQUEUEDEPTH: the value returned
SetQueueDepthRet(d, arg) ==
    IF arg < 1 \/ arg > 100 THEN "EINVAL"
    ELSE IF ~RingResizeOk(arg) THEN "ENOMEM"
    ELSE "OK"

\* mutant: the sanity check of the upper bound left out
SetQueueDepth_NoUpperBound(d, arg) ==
    IF arg < 1 \/ ~RingResizeOk(arg) THEN d
    ELSE [d EXCEPT !.reports = RingResize(@, arg), !.queue_depth = arg]

\* LL905::ioctl, SENSORIOCSQUEUEDEPTH: the driver afterwards
SetQueueDepth(d, arg) ==
    IF SetQueueDepthRet(d, arg) # "OK" THEN d
    ELSE [d EXCEPT !.reports = RingResize(@, arg), !.queue_depth = arg]

\* LL905::set_minimum_distance
SetMinimumDistance(d, min) == [d EXCEPT !.min_distance = min]

\* LL905::set_maximum_distance
SetMaximumDistance(d, max) == [d EXCEPT !.max_distance = max]

\* mutant: the reports are copied and left in the ring
ReadAutomatic_Peeks(d, count) == d

\* LL905::read, automatic mode: the driver after count calls of get
ReadAutomatic(d, count) == [d EXCEPT !.reports = RingRest(@, count)]

\* LL905::read, automatic mode: the reports copied to the caller
ReadAutomaticOut(d, count) == RingTake(d.reports, count)

\* LL905::read, automatic mode: the value returned (in reports)
ReadAutomaticRet(d, count) ==
    IF ReadAutomaticOut(d, count) = << >> THEN "EAGAIN" ELSE "OK"

\* LL905::read, manual mode, up to the usleep: flush, measure, usleep
ReadManualMeasure(d, ok) ==
    LET d1 == Measure([d EXCEPT !.reports = << >>], ok)
    IN  IF ok
        THEN Log(d1, Io("usleep", LL905_CONVERSION_INTERVAL, TRUE, NoReport))
        ELSE d1

\* LL905::read, manual mode, after the usleep: collect, then one get
ReadManualCollect(d, ok, raw) ==
    LET d1 == Collect(d, ok, raw)
    IN  IF ok THEN [d1 EXCEPT !.reports = RingRest(@, 1)] ELSE d1

\* LL905::read, manual mode: the report copied out after the collect
ReadManualOut(d, ok, raw) ==
    IF ok THEN RingTake(Collect(d, ok, raw).reports, 1) ELSE << >>

\* mutant: a failed collect returns without restarting the engine
CycleCollect_NoRestart(d, ok, raw) ==
    LET d1 == Collect(d, ok, raw)
        d2 == [d1 EXCEPT !.collect_phase = FALSE]
    IN  IF ~ok THEN d1
        ELSE IF d2.measure_ticks > ConversionTicks
        THEN WorkQueue(d2, d2.measure_ticks - ConversionTicks)
        ELSE d2

\* mutant: a gap of no ticks scheduled when the interval is the latency
CycleCollect_GapAtLatency(d, ok, raw) ==
    LET d1 == Collect(d, ok, raw)
        d2 == [d1 EXCEPT !.collect_phase = FALSE]
    IN  IF ~ok THEN Start(d1)
        ELSE IF d2.measure_ticks >= ConversionTicks
        THEN WorkQueue(d2, d2.measure_ticks - ConversionTicks)
        ELSE d2

\* LL905::cycle, collection phase: the driver after collect() returned
CycleCollect(d, ok, raw) ==
    LET d1 == Collect(d, ok, raw)
        d2 == [d1 EXCEPT !.collect_phase = FALSE]
    IN  IF ~ok THEN Start(d1)
        ELSE IF d2.measure_ticks > ConversionTicks
        THEN WorkQueue(d2, d2.measure_ticks - ConversionTicks)
        ELSE d2

\* LL905::cycle, collection phase: TRUE when cycle() returns after it
CycleCollectReturns(d, ok) == ~ok \/ d.measure_ticks > ConversionTicks

\* mutant: the phase is left at measurement after measure()
CycleMeasure_StaysMeasuring(d, ok) ==
    WorkQueue(Measure(d, ok), ConversionTicks)

\* mutant: a failed measure() ends the invocation
CycleMeasure_AbortsOnFailure(d, ok) ==
    IF ok
    THEN WorkQueue([Measure(d, ok) EXCEPT !.collect_phase = TRUE],
                   ConversionTicks)
    ELSE Measure(d, ok)

\* LL905::cycle, measurement phase
CycleMeasure(d, ok) ==
    WorkQueue([Measure(d, ok) EXCEPT !.collect_phase = TRUE], ConversionTicks)

(* ------------------------- bounds of the inputs ----------------------- *)
\* a transfer may fail while the environment has transfers left
MayFail(d) == d.comms_errors + d.clock < MaxTransfers
\* a collect may be answered while the environment has transfers left
MayAnswer(d) == d.comms_errors + d.clock < MaxTransfers

(* ------------------------------ steps --------------------------------- *)
\* the driver as it rests between steps: the io log has been handed to ev
Rest(d) == [d EXCEPT !.io = << >>]

\* no poll-rate request
NoRequest == [kind |-> "NONE", hz |-> 0]

Event(by, op, arg, ret, out, io, call) ==
    [by |-> by, op |-> op, arg |-> arg, req |-> NoRequest, ret |-> ret,
     out |-> out, io |-> io, call |-> call, last |-> "none"]

\* the record kept of a step of cycle(): the delay the invocation was queued
\* with and the transport call the engine had made last before the step
EngineEvent(op, ok, io, call) ==
    [Event("wq", op, wq.delay, IF ok THEN "OK" ELSE "EIO", << >>, io, call)
        EXCEPT !.last = wq.xfer]

\* the record kept of a step of ioctl(SENSORIOCSPOLLRATE, arg)
RateEvent(op, arg, ret, io) ==
    [Event("caller", op, arg.hz, ret, << >>, io, io) EXCEPT !.req = arg]

\* the transport call the engine made last, after a step with log io
LastTransfer(last, io) ==
    LET idx == {i \in 1..Len(io) :
                  io[i].call \in {"begin_acquisition", "read_distance"}}
    IN  IF idx = {} THEN last
        ELSE io[CHOOSE i \in idx : \A j \in idx : j <= i].call

Init ==
    /\ dev = Constructed
    /\ wq = [pc |-> "idle", delay |-> 0, xfer |-> "none", began |-> FALSE,
             restart |-> FALSE, io |-> << >>]
    /\ caller = [pc |-> "idle", io |-> << >>]
    /\ ev = Event("none", "none", 0, "OK", << >>, << >>, << >>)

(* --------------------------- driver start ----------------------------- *)
DoInit ==
    /\ ~dev.sensor_ok
    /\ \E instance \in ClassInstances, ok \in BOOLEAN, topic \in {-1, 1},
          junk \in UninitReports :
          /\ (instance # CLASS_DEVICE_PRIMARY =>
                ok /\ topic = -1 /\ junk = Garbage)
          /\ LET d == DriverInit(dev, instance, ok, topic, junk)
             IN  /\ dev' = Rest(d)
                 /\ ev' = Event("init", "init", instance, "OK", << >>, d.io, d.io)
    /\ UNCHANGED <<wq, caller>>

(* --------------------------- caller thread ---------------------------- *)
IoctlSetPollRate ==
    /\ dev.sensor_ok /\ caller.pc = "idle"
    /\ \E arg \in PollRateArgs :
          LET d == SetPollRate(dev, arg)
          IN  /\ dev' = Rest(d)
              /\ ev' = RateEvent("set_rate", arg,
                                 SetPollRateRet(dev, arg), d.io)
              /\ wq' = [wq EXCEPT
                           !.restart = @ \/ SetPollRateStarts(dev, arg)]
    /\ UNCHANGED caller

\* the work-queue thread preempts the caller inside start(): it has a
\* cycle() to resume or a queued item to run
IoctlSetPollRatePreempted ==
    /\ dev.sensor_ok /\ caller.pc = "idle"
    /\ wq.pc # "idle" \/ dev.work.queued
    /\ \E arg \in PollRateArgs :
          /\ SetPollRateStarts(dev, arg)
          /\ dev' = Rest(SetPollRateBegin(dev, arg))
          /\ ev' = RateEvent("start_begin", arg, "OK", << >>)
    /\ caller' = [caller EXCEPT !.pc = "start"]
    /\ wq' = [wq EXCEPT !.restart = TRUE]

\* the caller resumes start() at its work_queue call; the ioctl returns
IoctlSetPollRateResumed ==
    /\ caller.pc = "start"
    /\ LET d == StartEnd(dev)
       IN  /\ dev' = Rest(d)
           /\ ev' = Event("caller", "start_end", 0, "OK", << >>, d.io, d.io)
    /\ caller' = [caller EXCEPT !.pc = "idle"]
    /\ UNCHANGED wq

IoctlGetPollRate ==
    /\ dev.sensor_ok /\ caller.pc = "idle"
    /\ ev' = Event("caller", "get_rate", GetPollRate(dev), "OK",
                   << >>, << >>, << >>)
    /\ UNCHANGED <<dev, wq, caller>>

\* interrupts are off around the resize: one step
IoctlSetQueueDepth ==
    /\ dev.sensor_ok /\ caller.pc = "idle"
    /\ \E arg \in QueueDepths :
          /\ dev' = Rest(SetQueueDepth(dev, arg))
          /\ ev' = Event("caller", "set_depth", arg, SetQueueDepthRet(dev, arg),
                         << >>, << >>, << >>)
    /\ UNCHANGED <<wq, caller>>

IoctlSetMinimumDistance ==
    /\ dev.sensor_ok /\ caller.pc = "idle"
    /\ \E v \in MinDistances :
          /\ dev' = Rest(SetMinimumDistance(dev, v))
          /\ ev' = Event("caller", "set_min", v, "OK", << >>, << >>, << >>)
    /\ UNCHANGED <<wq, caller>>

IoctlSetMaximumDistance ==
    /\ dev.sensor_ok /\ caller.pc = "idle"
    /\ \E v \in MaxDistances :
          /\ dev' = Rest(SetMaximumDistance(dev, v))
          /\ ev' = Event("caller", "set_max", v, "OK", << >>, << >>, << >>)
    /\ UNCHANGED <<wq, caller>>

ReadNoSpace ==
    /\ dev.sensor_ok /\ caller.pc = "idle"
    /\ \E count \in ReadCounts :
          /\ count < 1
          /\ ev' = Event("caller", "read", count, "ENOSPC", << >>, << >>, << >>)
    /\ UNCHANGED <<dev, wq, caller>>

ReadAuto ==
    /\ dev.sensor_ok /\ caller.pc = "idle"
    /\ dev.measure_ticks > 0
    /\ \E count \in ReadCounts :
          /\ count >= 1
          /\ LET d == ReadAutomatic(dev, count)
             IN  /\ dev' = Rest(d)
                 /\ ev' = Event("caller", "read_auto", count,
                                ReadAutomaticRet(dev, count),
                                ReadAutomaticOut(dev, count), d.io, d.io)
    /\ UNCHANGED <<wq, caller>>

ReadManualBegin ==
    /\ dev.sensor_ok /\ caller.pc = "idle"
    /\ ~(dev.measure_ticks > 0)
    /\ \E count \in ReadCounts, ok \in BOOLEAN :
          /\ count >= 1
          /\ (~ok => MayFail(dev))
          /\ LET d == ReadManualMeasure(dev, ok)
             IN  /\ dev' = Rest(d)
                 /\ caller' = IF ok
                              THEN [caller EXCEPT !.pc = "usleep", !.io = d.io]
                              ELSE caller
                 /\ ev' = IF ok
                          THEN Event("caller", "read_sleep", count, "OK",
                                     << >>, d.io, d.io)
                          ELSE Event("caller", "read_manual", count, "EIO",
                                     << >>, d.io, d.io)
    /\ UNCHANGED wq

ReadManualEnd ==
    /\ caller.pc = "usleep"
    /\ \E ok \in BOOLEAN, raw \in RawCounts :
          /\ (~ok => MayFail(dev) /\ raw = 21)
          /\ (ok => MayAnswer(dev))
          /\ LET d == ReadManualCollect(dev, ok, raw)
             IN  /\ dev' = Rest(d)
                 /\ ev' = Event("caller", "read_manual", 0,
                                IF ok THEN "OK" ELSE "EIO",
                                ReadManualOut(dev, ok, raw),
                                d.io, caller.io \o d.io)
                 /\ caller' = [pc |-> "idle", io |-> << >>]
    /\ UNCHANGED wq

(* -------------------------- work-queue thread ------------------------- *)
\* the work-queue thread takes the due item off the queue and calls
\* cycle_trampoline; cycle() tests _collect_phase
WorkDispatch ==
    /\ wq.pc = "idle"
    /\ dev.work.queued
    /\ dev' = [dev EXCEPT !.work = [queued |-> FALSE, delay |-> 0]]
    /\ wq' = [wq EXCEPT !.pc = IF dev.collect_phase THEN "collect" ELSE "measure",
                        !.delay = dev.work.delay]
    /\ ev' = Event("wq", "dispatch", dev.work.delay, "OK", << >>, << >>, << >>)
    /\ UNCHANGED caller

CycleCollectDone ==
    /\ wq.pc = "collect"
    /\ \E ok \in BOOLEAN, raw \in RawCounts :
          /\ (~ok => MayFail(dev) /\ raw = 21)
          /\ (ok => MayAnswer(dev))
          /\ LET d == CycleCollect(dev, ok, raw)
                 done == CycleCollectReturns(dev, ok)
             IN  /\ dev' = Rest(d)
                 /\ wq' = [pc |-> IF done THEN "idle" ELSE "measure",
                           delay |-> IF done THEN 0 ELSE wq.delay,
                           xfer |-> LastTransfer(wq.xfer, d.io),
                           began |-> wq.began,
                           restart |-> ~ok,
                           io |-> IF done THEN << >> ELSE d.io]
                 /\ ev' = EngineEvent(IF ~ok THEN "collect_failed"
                                      ELSE IF done THEN "collect_gap"
                                      ELSE "collect_fall",
                                      ok, d.io, d.io)
    /\ UNCHANGED caller

CycleMeasureDone ==
    /\ wq.pc = "measure"
    /\ \E ok \in BOOLEAN :
          /\ (~ok => MayFail(dev))
          /\ LET d == CycleMeasure(dev, ok)
             IN  /\ dev' = Rest(d)
                 /\ wq' = [pc |-> "idle", delay |-> 0,
                           xfer |-> LastTransfer(wq.xfer, d.io),
                           began |-> ok,
                           restart |-> FALSE,
                           io |-> << >>]
                 /\ ev' = EngineEvent("measured", ok, d.io, wq.io \o d.io)
    /\ UNCHANGED caller

Next ==
    \/ DoInit
    \/ IoctlSetPollRate
    \/ IoctlSetPollRatePreempted
    \/ IoctlSetPollRateResumed
    \/ ReadNoSpace
    \/ ReadAuto
    \/ ReadManualBegin
    \/ ReadManualEnd
    \/ WorkDispatch
    \/ CycleCollectDone
    \/ CycleMeasureDone

Spec == Init /\ [][Next]_vars

(* ------------------- the engine and the thresholds -------------------- *)
\* the operations that build reports, with the threshold ioctls
NextRange ==
    \/ DoInit
    \/ IoctlSetPollRate
    \/ IoctlSetPollRatePreempted
    \/ IoctlSetPollRateResumed
    \/ IoctlSetMinimumDistance
    \/ IoctlSetMaximumDistance
    \/ ReadManualBegin
    \/ ReadManualEnd
    \/ WorkDispatch
    \/ CycleCollectDone
    \/ CycleMeasureDone

SpecRange == Init /\ [][NextRange]_vars

(* ---------------------- the engine without an end --------------------- *)
\* the counters and the clock stop counting at LiveCap, so that the
\* transport can answer and fail for ever in a finite state space
Saturate(d) ==
    LET cap(n) == IF n > LiveCap THEN LiveCap ELSE n
    IN  [d EXCEPT !.clock = cap(@), !.comms_errors = cap(@),
                  !.buffer_overflows = cap(@)]

\* CycleCollectDone with a transport that never stops answering
LiveCollectDone ==
    /\ wq.pc = "collect"
    /\ \E ok \in BOOLEAN, raw \in RawCounts :
          /\ (~ok => raw = 21)
          /\ LET d == CycleCollect(dev, ok, raw)
                 done == CycleCollectReturns(dev, ok)
             IN  /\ dev' = Saturate(Rest(d))
                 /\ wq' = [pc |-> IF done THEN "idle" ELSE "measure",
                           delay |-> IF done THEN 0 ELSE wq.delay,
                           xfer |-> LastTransfer(wq.xfer, d.io),
                           began |-> wq.began,
                           restart |-> ~ok,
                           io |-> IF done THEN << >> ELSE d.io]
                 /\ ev' = EngineEvent(IF ~ok THEN "collect_failed"
                                      ELSE IF done THEN "collect_gap"
                                      ELSE "collect_fall",
                                      ok, d.io, d.io)
    /\ UNCHANGED caller

\* CycleMeasureDone with a transport that never stops answering
LiveMeasureDone ==
    /\ wq.pc = "measure"
    /\ \E ok \in BOOLEAN :
          LET d == CycleMeasure(dev, ok)
          IN  /\ dev' = Saturate(Rest(d))
              /\ wq' = [pc |-> "idle", delay |-> 0,
                        xfer |-> LastTransfer(wq.xfer, d.io),
                        began |-> ok,
                        restart |-> FALSE,
                        io |-> << >>]
              /\ ev' = EngineEvent("measured", ok, d.io, wq.io \o d.io)
    /\ UNCHANGED caller

NextLive ==
    \/ DoInit
    \/ IoctlSetPollRate
    \/ IoctlSetPollRatePreempted
    \/ IoctlSetPollRateResumed
    \/ WorkDispatch
    \/ LiveCollectDone
    \/ LiveMeasureDone

\* the scheduler runs every pending cycle, every transfer returns, and a
\* caller that was preempted gets the processor back
SpecLive ==
    /\ Init /\ [][NextLive]_vars
    /\ WF_wq(WorkDispatch)
    /\ WF_wq(LiveCollectDone)
    /\ WF_wq(LiveMeasureDone)
    /\ WF_caller(IoctlSetPollRateResumed)

\* the control surface with the queue depth and the poll-rate query, next
\* to the engine and the automatic read
NextControl ==
    \/ DoInit
    \/ IoctlSetPollRate
    \/ IoctlSetPollRatePreempted
    \/ IoctlSetPollRateResumed
    \/ IoctlGetPollRate
    \/ IoctlSetQueueDepth
    \/ ReadAuto
    \/ WorkDispatch
    \/ CycleCollectDone
    \/ CycleMeasureDone

SpecControl == Init /\ [][NextControl]_vars

(* ======================== reading the io logs ========================= *)
\* how many calls named name a log holds
Count(io, name) == Cardinality({i \in 1..Len(io) : io[i].call = name})

\* the first call named name in a log that holds one
Entry(io, name) ==
    io[CHOOSE i \in 1..Len(io) :
          io[i].call = name /\ \A j \in 1..(i - 1) : io[j].call # name]

\* the names of the transport calls and waits of a log, in order
RECURSIVE BusCalls(_)
BusCalls(io) ==
    IF io = << >> THEN << >>
    ELSE IF Head(io).call \in {"begin_acquisition", "read_distance", "usleep"}
    THEN <<Head(io).call>> \o BusCalls(Tail(io))
    ELSE BusCalls(Tail(io))

\* how often a report occurs in a buffer
Occurrences(buf, r) == Cardinality({i \in 1..Len(buf) : buf[i] = r})

(* ============================== claims ================================ *)

\* C1: once set_rate(Manual) has returned (measure_ticks is 0) and the
\* cycle() that was executing during the call, if any, has finished, no
\* cycle is pending.  This is the part of C1 that a cycle() in flight
\* during the call decides; the full claim also forbids that cycle to run.
C1_ManualStopsEngine ==
    (dev.measure_ticks = 0 /\ wq.pc = "idle") => ~dev.work.queued

\* C2: a cycle() whose collect fails ends with the phase Measuring, the
\* work item queued by exactly one work_queue call, the thread out of
\* cycle(), no report built, published or stored, and the comms-error
\* counter raised by exactly one.
C2_CollectFailureRestarts ==
    [][ (wq.pc = "collect" /\ ev'.op = "collect_failed") =>
          /\ ~dev'.collect_phase
          /\ dev'.work.queued
          /\ wq'.pc = "idle"
          /\ Count(ev'.call, "work_queue") = 1
          /\ Count(ev'.call, "orb_publish") = 0
          /\ Count(ev'.call, "force") = 0
          /\ dev'.clock = dev.clock
          /\ dev'.comms_errors = dev.comms_errors + 1 ]_vars

C2_Witness ==
    /\ ev.op = "collect_failed"
    /\ dev.work.queued /\ ~dev.collect_phase /\ dev.comms_errors = 1

\* the statement of C3, with publishes deciding which instances publish
C3_Statement(publishes, d, w, d2, w2, e2) ==
    /\ (w.pc = "collect" /\ e2.op \in {"collect_gap", "collect_fall"}) =>
          /\ Count(e2.io, "force") = 1
          /\ Count(e2.io, "read_distance") = 1
          /\ LET report == Entry(e2.io, "force").rep
                 raw == Entry(e2.io, "read_distance").n
             IN  /\ report.distance = raw * 10
                 /\ report.valid = (d.min_distance < report.distance
                                    /\ report.distance < d.max_distance)
                 /\ Occurrences(d.reports, report) = 0
                 /\ Occurrences(d2.reports, report) = 1
                 /\ Count(e2.io, "orb_publish") = IF publishes THEN 1 ELSE 0
                 /\ \A i \in 1..Len(e2.io) :
                       e2.io[i].call = "orb_publish" => e2.io[i].rep = report
          /\ ~d2.collect_phase
          /\ (e2.op = "collect_gap") = (w2.pc = "idle")
    /\ (w.pc = "measure" /\ e2.op = "measured"
            /\ Count(e2.call, "force") = 1) => d2.collect_phase

C4_BufferBounded ==
    /\ [](Len(dev.reports) <= dev.queue_depth)
    /\ [][ LET full == Len(dev.reports) >= dev.queue_depth
               n == Count(ev'.io, "force")
           IN  /\ n <= 1
               /\ n = 0 => dev'.buffer_overflows = dev.buffer_overflows
               /\ n = 1 =>
                    LET e == Entry(ev'.io, "force")
                        after == IF full THEN Append(Tail(dev.reports), e.rep)
                                 ELSE Append(dev.reports, e.rep)
                    IN  /\ e.flag = full
                        /\ dev'.reports = IF ev'.op = "read_manual"
                                          THEN Tail(after) ELSE after
                        /\ dev'.buffer_overflows =
                              dev.buffer_overflows + IF full THEN 1 ELSE 0 ]_vars

C4_Witness ==
    /\ dev.buffer_overflows = 1
    /\ Count(ev.io, "force") = 1 /\ Entry(ev.io, "force").flag
    /\ Len(dev.reports) = dev.queue_depth

\* C5: a manual-mode read that succeeds has made exactly one
\* begin_acquisition, then one usleep of the conversion interval, then one
\* read_distance; it returns exactly the report built from that read and
\* leaves the ring empty.
C5_ManualReadOneShot ==
    (ev.op = "read_manual" /\ ev.ret = "OK") =>
        /\ BusCalls(ev.call) = <<"begin_acquisition", "usleep", "read_distance">>
        /\ Entry(ev.call, "usleep").n = LL905_CONVERSION_INTERVAL
        /\ Len(ev.out) = 1
        /\ ev.out[1] = Entry(ev.call, "force").rep
        /\ dev.reports = << >>

BadRate(arg) ==
    \/ arg.kind = "EXTERNAL"
    \/ arg.kind = "HZ" /\ arg.hz = 0
    \/ arg.kind = "HZ" /\ arg.hz # 0 /\ HzTicks(arg.hz) < ConversionTicks

\* C7: set_rate with External, 0, or a Hz value whose interval is shorter
\* than the conversion latency returns EINVAL and changes nothing: not the
\* driver object (interval, phase, work item, ring), not the work-queue
\* thread, and it calls neither start() nor stop().
C7_BadRateRejected ==
    [][ (ev'.op = "set_rate" /\ BadRate(ev'.req)) =>
          /\ ev'.ret = "EINVAL"
          /\ dev' = dev
          /\ wq' = wq
          /\ ev'.io = << >> ]_vars

C7_Witness ==
    /\ ev.op = "set_rate" /\ ev.req.kind = "HZ" /\ ev.req.hz = 11
    /\ ev.ret = "EINVAL"
    /\ dev.measure_ticks = HzTicks(2) /\ dev.work.queued /\ dev.reports # << >>

\* C8: a successful set_rate(Default/Max/Hz) calls start() exactly when
\* measure_ticks was 0; otherwise it changes measure_ticks and nothing else.
\* Every work_queue call takes its delay from the call site: StartDelay in
\* start(), the conversion latency after a measure, and measure_ticks minus
\* the conversion latency, with the interval in force at that collect,
\* after a successful collect with measure_ticks above the latency.
C8_RateChangeWhileRunning ==
    [][ /\ ev'.op = "start_begin" => dev.measure_ticks = 0
        /\ ev'.op = "start_end" =>
             /\ caller.pc = "start"
             /\ Count(ev'.io, "subsystem_info") = 1
             /\ dev'.work = [queued |-> TRUE, delay |-> StartDelay]
        /\ (ev'.op = "set_rate" /\ ev'.ret = "OK" /\ ev'.req.kind # "MANUAL") =>
             LET ticks == IF ev'.req.kind = "HZ" THEN HzTicks(ev'.req.hz)
                          ELSE ConversionTicks
             IN  /\ Count(ev'.io, "subsystem_info")
                       = IF dev.measure_ticks = 0 THEN 1 ELSE 0
                 /\ dev.measure_ticks = 0 =>
                       /\ dev'.measure_ticks = ticks
                       /\ dev'.work = [queued |-> TRUE, delay |-> StartDelay]
                 /\ dev.measure_ticks # 0 =>
                       /\ dev' = [dev EXCEPT !.measure_ticks = ticks]
                       /\ wq' = wq
                       /\ ev'.io = << >>
        /\ \A i \in 1..Len(ev'.io) :
             ev'.io[i].call = "work_queue" =>
                ev'.io[i].n =
                   CASE ev'.op = "collect_gap" ->
                            dev.measure_ticks - ConversionTicks
                     [] ev'.op = "measured" -> ConversionTicks
                     [] OTHER -> StartDelay
        /\ (wq.pc = "collect" /\ ev'.by = "wq" /\ ev'.ret = "OK") =>
             (ev'.op = "collect_gap") = (dev.measure_ticks > ConversionTicks) ]_vars

C8_Witness ==
    /\ ev.op = "set_rate" /\ ev.ret = "OK" /\ ev.req.kind = "HZ"
    /\ ev.io = << >>
    /\ dev.measure_ticks = HzTicks(2)
    /\ dev.work = [queued |-> TRUE, delay |-> ConversionTicks]
    /\ dev.collect_phase /\ dev.reports # << >>

\* C9: at most one cycle() invocation is pending or executing, and no
\* work_queue call finds the work item already queued.
C9_SingleFlight ==
    /\ ~(dev.work.queued /\ wq.pc # "idle")
    /\ \A i \in 1..Len(ev.io) :
          ev.io[i].call = "work_queue" => ~ev.io[i].flag

\* C10: cycle() calls read_distance only in an invocation that was scheduled
\* with a delay of exactly the conversion latency, and the transport call
\* the engine made before it was a begin_acquisition.
C10_CollectAfterLatency ==
    [][ (ev'.by = "wq" /\ Count(ev'.io, "read_distance") > 0) =>
          /\ wq.pc = "collect"
          /\ wq.delay = ConversionTicks
          /\ wq.xfer = "begin_acquisition" ]_vars

\* C11: with an interval T of at least the conversion latency, a successful
\* collect in cycle() schedules the next invocation after T minus the
\* latency and returns without an acquisition when T is above the latency,
\* and schedules nothing and goes on to begin_acquisition in the same
\* invocation when T is the latency; every acquisition of cycle() schedules
\* the collect after the latency, and an invocation runs with the delay it
\* was queued with.  The two delays between acquisitions add up to T.
C11_AcquisitionsOneIntervalApart ==
    [][ /\ (wq.pc = "collect" /\ ev'.by = "wq" /\ ev'.ret = "OK"
              /\ dev.measure_ticks >= ConversionTicks) =>
             IF dev.measure_ticks > ConversionTicks
             THEN /\ ev'.op = "collect_gap"
                  /\ Count(ev'.io, "work_queue") = 1
                  /\ Entry(ev'.io, "work_queue").n
                        = dev.measure_ticks - ConversionTicks
                  /\ dev'.work = [queued |-> TRUE,
                                  delay |-> dev.measure_ticks - ConversionTicks]
                  /\ Count(ev'.call, "begin_acquisition") = 0
                  /\ wq'.pc = "idle"
             ELSE /\ ev'.op = "collect_fall"
                  /\ Count(ev'.io, "work_queue") = 0
                  /\ dev'.work = dev.work
                  /\ wq'.pc = "measure"
        /\ (wq.pc = "measure" /\ ev'.by = "wq") =>
             /\ ev'.op = "measured"
             /\ Count(ev'.io, "begin_acquisition") = 1
             /\ Count(ev'.io, "work_queue") = 1
             /\ Entry(ev'.io, "work_queue").n = ConversionTicks
             /\ BusCalls(ev'.call) =
                   IF wq.io = << >> THEN <<"begin_acquisition">>
                   ELSE <<"read_distance", "begin_acquisition">>
        /\ ev'.op = "dispatch" =>
             /\ dev.work.queued
             /\ wq'.delay = dev.work.delay
             /\ wq'.pc = IF dev.collect_phase THEN "collect" ELSE "measure" ]_vars

C11_Witness ==
    /\ ev.op = "measured" /\ ev.ret = "OK"
    /\ ev.arg = HzTicks(2) - ConversionTicks
    /\ dev.measure_ticks = HzTicks(2)
    /\ dev.reports # << >>
    /\ dev.work = [queued |-> TRUE, delay |-> ConversionTicks]

\* C12: the ring never holds more reports than its size, and
\* set_queue_depth(k) with k < 1 or k > 100 returns EINVAL and leaves
\* the driver, the ring's size and contents included, as it was; with k
\* from 1 to 100 it returns OK, the size of the ring becomes k, the ring
\* holds the most recent min(occupancy, k) of its reports in their order,
\* and nothing else changes.
C12_QueueDepth ==
    [][ /\ Len(dev'.reports) <= dev'.queue_depth
        /\ ev'.op = "set_depth" =>
             LET k == ev'.arg
                 n == Len(dev.reports)
                 m == IF k < n THEN k ELSE n
             IN  IF k < 1 \/ k > 100
                 THEN ev'.ret = "EINVAL" /\ dev' = dev /\ wq' = wq
                 ELSE /\ ev'.ret = "OK"
                      /\ dev'.queue_depth = k
                      /\ dev'.reports = SubSeq(dev.reports, n - m + 1, n)
                      /\ dev' = [dev EXCEPT !.queue_depth = k,
                                            !.reports = dev'.reports]
                      /\ wq' = wq ]_vars

C12_Witness ==
    /\ ev.op = "set_depth" /\ ev.arg = 1 /\ ev.ret = "OK"
    /\ dev.queue_depth = 1
    /\ Len(dev.reports) = 1 /\ dev.reports[1].timestamp = 2
    /\ dev.buffer_overflows = 0

\* C13: every report handed to the range-finder topic (orb_advertise with
\* its first value, orb_publish) or inserted into the ring is built, in the
\* same step, from the one read_distance of that step, which succeeded;
\* the ring otherwise only loses reports; an instance that is not the
\* primary one hands nothing to the topic.
C13_ReportsOnlyFromCollect ==
    [][ /\ \A i \in 1..Len(ev'.io) :
             ev'.io[i].call \in {"orb_advertise", "orb_publish", "force"} =>
                /\ Count(ev'.io, "read_distance") = 1
                /\ Entry(ev'.io, "read_distance").flag
                /\ ev'.io[i].rep.distance
                      = Entry(ev'.io, "read_distance").n * 10
                /\ ev'.io[i].rep.timestamp = dev'.clock
                /\ dev'.clock = dev.clock + 1
        /\ \A i \in 1..Len(dev'.reports) :
             \/ Occurrences(dev.reports, dev'.reports[i]) > 0
             \/ \E j \in 1..Len(ev'.io) :
                   ev'.io[j].call = "force" /\ ev'.io[j].rep = dev'.reports[i]
        /\ dev'.class_instance # CLASS_DEVICE_PRIMARY =>
             /\ Count(ev'.io, "orb_advertise") = 0
             /\ Count(ev'.io, "orb_publish") = 0 ]_vars

\* C13 without the advertisement of LL905::init: diagnostic for the rest
C13_ExceptInit ==
    [][ /\ \A i \in 1..Len(ev'.io) :
             ev'.io[i].call \in {"orb_publish", "force"} =>
                /\ Count(ev'.io, "read_distance") = 1
                /\ Entry(ev'.io, "read_distance").flag
                /\ ev'.io[i].rep.distance
                      = Entry(ev'.io, "read_distance").n * 10
                /\ ev'.io[i].rep.timestamp = dev'.clock
                /\ dev'.clock = dev.clock + 1
        /\ ev'.op # "init" => Count(ev'.io, "orb_advertise") = 0
        /\ \A i \in 1..Len(dev'.reports) :
             \/ Occurrences(dev.reports, dev'.reports[i]) > 0
             \/ \E j \in 1..Len(ev'.io) :
                   ev'.io[j].call = "force" /\ ev'.io[j].rep = dev'.reports[i]
        /\ dev'.class_instance # CLASS_DEVICE_PRIMARY =>
             /\ Count(ev'.io, "orb_advertise") = 0
             /\ Count(ev'.io, "orb_publish") = 0 ]_vars

\* the last step was a transfer of cycle() that started an acquisition
EngineBegan == ev.by = "wq" /\ Count(ev.io, "begin_acquisition") > 0

\* the last step inserted a report into the ring
EngineInserted == ev.by = "wq" /\ Count(ev.io, "force") > 0

\* the last step had a transfer that failed
TransferFailed ==
    \E i \in 1..Len(ev.io) :
        ev.io[i].call \in {"begin_acquisition", "read_distance"}
            /\ ~ev.io[i].flag

\* C14: with every pending cycle run in the end and every transfer
\* returning, whether it succeeds or fails, a state with measure_ticks > 0
\* is followed by a begin_acquisition of cycle() unless measure_ticks
\* becomes 0, and by the insertion of a report unless measure_ticks becomes
\* 0 or a transfer fails.
C14_EngineKeepsGoing ==
    /\ (dev.measure_ticks > 0) ~> (EngineBegan \/ dev.measure_ticks = 0)
    /\ (dev.measure_ticks > 0)
          ~> (EngineInserted \/ dev.measure_ticks = 0 \/ TransferFailed)

C14_Witness ==
    /\ EngineBegan /\ ev.ret = "EIO"
    /\ dev.measure_ticks = HzTicks(2)
    /\ dev.comms_errors = LiveCap /\ dev.clock = LiveCap
    /\ Len(dev.reports) = dev.queue_depth

\* C15: a manual-mode read that returns EIO after a failed
\* begin_acquisition has neither slept nor called read_distance; a
\* manual-mode read that returns EIO, after either failure, returns no
\* report, has published none and forced none into the ring, leaves the
\* ring empty, and its failing step adds exactly one to comms_errors.
C15_ManualReadFailure ==
    [][ (ev'.op = "read_manual" /\ ev'.ret = "EIO") =>
          /\ ~Entry(ev'.call, "begin_acquisition").flag =>
                 BusCalls(ev'.call) = <<"begin_acquisition">>
          /\ Entry(ev'.call, "begin_acquisition").flag =>
                 BusCalls(ev'.call) =
                     <<"begin_acquisition", "usleep", "read_distance">>
          /\ ev'.out = << >>
          /\ Count(ev'.call, "orb_publish") = 0
          /\ Count(ev'.call, "force") = 0
          /\ dev'.comms_errors = dev.comms_errors + 1
          /\ dev'.reports = << >>
      ]_vars

\* C15 without the state of the ring at the return of the read
C15_ExceptRing ==
    [][ (ev'.op = "read_manual" /\ ev'.ret = "EIO") =>
          /\ ~Entry(ev'.call, "begin_acquisition").flag =>
                 BusCalls(ev'.call) = <<"begin_acquisition">>
          /\ Entry(ev'.call, "begin_acquisition").flag =>
                 BusCalls(ev'.call) =
                     <<"begin_acquisition", "usleep", "read_distance">>
          /\ ev'.out = << >>
          /\ Count(ev'.call, "orb_publish") = 0
          /\ Count(ev'.call, "force") = 0
          /\ dev'.comms_errors = dev.comms_errors + 1
      ]_vars

\* C16 as stated: get_rate returns SENSOR_POLLRATE_MANUAL exactly when
\* measure_ticks is 0 and otherwise returns measure_ticks.
C16_ReturnsTicks ==
    ev.op = "get_rate" =>
        /\ (ev.arg = SENSOR_POLLRATE_MANUAL) <=> (dev.measure_ticks = 0)
        /\ dev.measure_ticks > 0 => ev.arg = dev.measure_ticks

\* C16 as amended: get_rate changes nothing, returns
\* SENSOR_POLLRATE_MANUAL exactly when measure_ticks is 0 and otherwise
\* returns the whole quotient of 1000 by measure_ticks, which is the rate
\* in Hz of the stored interval at one tick per millisecond.
C16_ReturnsRate ==
    [][ ev'.op = "get_rate" =>
          /\ dev' = dev
          /\ (ev'.arg = SENSOR_POLLRATE_MANUAL) <=> (dev.measure_ticks = 0)
          /\ dev.measure_ticks > 0 =>
                 /\ ev'.arg * dev.measure_ticks <= 1000
                 /\ (ev'.arg + 1) * dev.measure_ticks > 1000
      ]_vars

C16_Witness ==
    /\ ev.op = "get_rate" /\ ev.arg = 2
    /\ dev.measure_ticks = HzTicks(2)
    /\ dev.work.queued

\* a step in which a call of start() returned
StartReturned == Count(ev.io, "subsystem_info") > 0

\* C17: a step in which start() returns leaves the ring empty, the phase
\* at measurement and the work item queued by its one work_queue call
\* with the delay of one tick; an invocation of cycle() dispatched with the delay
\* start() queues it with begins in the measurement phase; stop() with the
\* work item not queued leaves the driver and the work queue as they were.
C17_StartResets ==
    [][ /\ StartReturned' =>
             /\ dev'.reports = << >>
             /\ ~dev'.collect_phase
             /\ dev'.work = [queued |-> TRUE, delay |-> StartDelay]
             /\ Count(ev'.io, "work_queue") = 1
        /\ (ev'.op = "dispatch" /\ wq'.delay = StartDelay) =>
             wq'.pc = "measure"
        /\ (ev'.op = "set_rate" /\ ev'.req.kind = "MANUAL"
               /\ ~dev.work.queued) =>
             /\ dev' = [dev EXCEPT !.measure_ticks = 0]
             /\ wq' = wq
      ]_vars

\* C17 for the calls of start() that no cycle() overlaps, and stop()
C17_StartAlone ==
    [][ /\ (StartReturned' /\ ev'.op # "start_end" /\ wq.pc = "idle") =>
             /\ dev'.reports = << >>
             /\ ~dev'.collect_phase
             /\ dev'.work = [queued |-> TRUE, delay |-> StartDelay]
             /\ Count(ev'.io, "work_queue") = 1
        /\ (ev'.op = "set_rate" /\ ev'.req.kind = "MANUAL"
               /\ ~dev.work.queued) =>
             /\ dev' = [dev EXCEPT !.measure_ticks = 0]
             /\ wq' = wq
      ]_vars

\* C18: a step of cycle() whose begin_acquisition fails adds exactly one to
\* comms_errors, sets the phase to collection, leaves the ring, the overflow
\* counter, the clock and the interval as they were, publishes nothing, and
\* makes one work_queue call with the conversion latency, which leaves the
\* work item queued with that delay.
C18_MeasureFailureGoesOn ==
    [][ (ev'.op = "measured" /\ ev'.ret = "EIO") =>
          /\ dev'.comms_errors = dev.comms_errors + 1
          /\ dev'.collect_phase
          /\ dev'.reports = dev.reports
          /\ dev'.buffer_overflows = dev.buffer_overflows
          /\ dev'.clock = dev.clock
          /\ dev'.measure_ticks = dev.measure_ticks
          /\ Count(ev'.io, "orb_publish") = 0
          /\ Count(ev'.io, "force") = 0
          /\ Count(ev'.io, "work_queue") = 1
          /\ Entry(ev'.io, "work_queue").n = ConversionTicks
          /\ dev'.work = [queued |-> TRUE, delay |-> ConversionTicks]
      ]_vars

C18_Witness ==
    /\ ev.op = "measured" /\ ev.ret = "EIO"
    /\ dev.measure_ticks = HzTicks(2)
    /\ dev.reports # << >>
    /\ dev.collect_phase
    /\ dev.work = [queued |-> TRUE, delay |-> ConversionTicks]

\* the reports a step forced into the ring
Forced == {ev.io[i].rep : i \in {j \in 1..Len(ev.io) : ev.io[j].call = "force"}}

\* C19 as stated: a report is valid exactly when its distance is at least
\* min_distance and below max_distance.
C19_ValidHalfOpen ==
    \A r \in Forced :
        r.valid <=> (dev.min_distance <= r.distance
                        /\ r.distance < dev.max_distance)

\* C19 as amended: a report is valid exactly when its distance is above
\* min_distance and below max_distance; a reading equal to either threshold
\* is not valid.
C19_ValidStrictlyInside ==
    \A r \in Forced :
        /\ r.valid <=> (dev.min_distance < r.distance
                          /\ r.distance < dev.max_distance)
        /\ r.distance \in {dev.min_distance, dev.max_distance} => ~r.valid

C19_Witness ==
    \E r \in Forced : r.distance = dev.min_distance /\ ~r.valid

\* C20: a step of cycle() makes at most one transport call; when it calls
\* read_distance, the transport call the engine made last was not a
\* read_distance; when it calls begin_acquisition and the transport call the
\* engine made last was a begin_acquisition, start() has run since that call.
C20_TransfersAlternate ==
    [][ ev'.by = "wq" =>
          /\ Count(ev'.io, "read_distance")
                + Count(ev'.io, "begin_acquisition") <= 1
          /\ Count(ev'.io, "read_distance") > 0 =>
                 wq.xfer # "read_distance"
          /\ (Count(ev'.io, "begin_acquisition") > 0
                 /\ wq.xfer = "begin_acquisition") => wq.restart
      ]_vars

\* the engine has called begin_acquisition twice in a row, and the first
\* call was made at the configured rate: start() ran in between
C20_Witness ==
    /\ ev.by = "wq" /\ Count(ev.io, "begin_acquisition") = 1
    /\ ev.last = "begin_acquisition"
    /\ ev.arg = StartDelay
    /\ dev.measure_ticks = HzTicks(2)

\* a step of cycle() that built a report: published it or stored it
EngineReported ==
    /\ ev.by = "wq"
    /\ Count(ev.io, "orb_publish") + Count(ev.io, "force") > 0

\* C21 as stated: a step of cycle() publishes or stores a report only when
\* the transport call the engine made before its read_distance was a
\* begin_acquisition that succeeded.
C21_ReportOnlyAfterStartedAcquisition ==
    [][ EngineReported' =>
          /\ wq.xfer = "begin_acquisition"
          /\ wq.began ]_vars

\* C21 as amended: a step of cycle() publishes or stores a report only in
\* the collection phase, after a read_distance of the same step that
\* succeeded, and the transport call the engine made before it was a
\* begin_acquisition, whether that call succeeded or failed.
C21_ReportOnlyAfterAcquisitionCall ==
    [][ EngineReported' =>
          /\ wq.pc = "collect"
          /\ Count(ev'.io, "read_distance") = 1
          /\ Entry(ev'.io, "read_distance").flag
          /\ Count(ev'.io, "force") = 1
          /\ wq.xfer = "begin_acquisition" ]_vars

\* the engine stored a report read after a begin_acquisition that failed
C21_Witness ==
    /\ EngineReported
    /\ ev.last = "begin_acquisition" /\ ~wq.began
    /\ ev.arg = ConversionTicks
    /\ dev.reports # << >>

====
